---- MODULE Spec2Model ----
(***************************************************************************)
(* State-machine model of the cross-chain BTC handler (btc.go) and of the  *)
(* node_manager governance contract (node_manager.go).                     *)
(*                                                                         *)
(* Nine specifications share the module:                                   *)
(*   SpecVerifier  verifyBtcTx against the SPV oracle and the replay store *)
(*   SpecProof     verifyBtcTx on every enumerated merkle proof            *)
(*   SpecBuilder   makeBtcTx against the UTXO oracle                       *)
(*   Spec          the committee epoch calls of node_manager.go            *)
(*   SpecStake     the application and stake calls of node_manager.go      *)
(*   SpecCommittee the black list and the rotation it forces               *)
(*   SpecEpoch     the epoch commit on a growing ledger                    *)
(*   SpecConfig    UpdateConfig on a grid of configurations                *)
(*   SpecParam     UpdateGlobalParam and the calls that read GlobalParam   *)
(* Each leaves the other components' variables unchanged.                  *)
(***************************************************************************)
EXTENDS Integers, Sequences, FiniteSets, TLC

VARIABLES
    \* ---- cross-chain verifier (btc.go, verifyBtcTx)
    sub,          \* the (proof, tx) pair a relayer has prepared and submits
    verified,     \* CacheDB: txids whose replay-guard key holds the sentinel {1}
    spvHeight,    \* SPV client: best height of the foreign chain
    blocksToWait, \* side_chain_manager: SideChain.BlocksToWait of the BTC chain
    lastV,        \* the last Verify call: who, claimed height, fault, result
    acceptedBy,   \* history: the relayers whose (proof, tx) pair Verify has accepted

    \* ---- cross-chain transaction builder (btc.go, makeBtcTx)
    req,           \* the amounts (destination address -> satoshi) of the request
    btcTx,         \* CacheDB: the value under BTC_TX_PREFIX (NoTx when absent)
    notifications, \* service.Notifications

    lastM,         \* the last makeBtcTx call: the UTXO answer, fault and result
    \* ---- governance (node_manager.go): the contract's keys in CacheDB
    peerPoolMap,    \* PEER_POOL of the current view: pubkey -> PeerPoolItem
    peerApply,      \* PEER_APPLY: pubkey -> pending application
    blackList,      \* BLACK_LIST: pubkey -> BlackListItem
    peerIndex,      \* PEER_INDEX: pubkey -> index
    candidateIndex, \* CANDIDITE_INDEX: the next index to allocate
    governanceView, \* GOVERNANCE_VIEW: View, Height, TxHash
    config,         \* VBFT_CONFIG: the active Configuration
    preConfig,      \* PRE_CONFIG: the staged Configuration and its SetView
    globalParam,    \* GLOBAL_PARAM: MinInitStake, CandidateNum
    \* ---- governance: the ledger around the contract
    custody,        \* balance of the governance contract's account
    blockHeight,    \* the ledger's block height (native.GetHeight)
    \* ---- governance: history
    genesis,        \* the number of peers InitConfig was given
    escrow,         \* per pubkey: amount transferred in for it minus amount paid out
    last            \* the last governance call: operation, result, and under key the
                    \* pubkey or list it names (for CommitDpos, its caller)

verifierVars == <<sub, verified, spvHeight, blocksToWait, lastV, acceptedBy>>
builderVars == <<req, btcTx, notifications, lastM>>
storeVars == <<peerPoolMap, peerApply, blackList, peerIndex, candidateIndex,
               governanceView, config, preConfig, globalParam>>
ledgerVars == <<custody, blockHeight>>
historyVars == <<genesis, escrow, last>>
govVars == <<storeVars, ledgerVars, historyVars>>

vars == <<verifierVars, builderVars, govVars>>

-----------------------------------------------------------------------------
(* Bounds of the model *)

\* Width, in bits, the model gives Go's uint32 (arithmetic is modulo 2^WordBits).
WordBits == 16
\* Greatest height of the foreign chain the SPV client reaches.
MaxHeight == 3
\* Greatest SideChain.BlocksToWait a behaviour is started with.
MaxWait == 2
\* Greatest number of hashes in an enumerated merkle proof.
MaxHashes == 2
\* Number of leading flag bits of a proof that vary (the rest of the byte is 0).
MaxBits == 3

-----------------------------------------------------------------------------
(* Fixed-width arithmetic *)

RECURSIVE Pow2(_)
Pow2(n) == IF n = 0 THEN 1 ELSE 2 * Pow2(n - 1)

Uint32Mod == Pow2(WordBits)

\* A Go uint32 expression: the mathematical value reduced modulo 2^width.
U32(x) == x % Uint32Mod

-----------------------------------------------------------------------------
(* Hashes.  Txids are atoms 1..LeafMax; the hash of two children is an     *)
(* injective pairing that never yields an atom or the zero hash.           *)

LeafMax == 4
NilHash == 0

HashMerkleBranches(l, r) == ((l + r) * (l + r + 1)) \div 2 + r + LeafMax

\* The foreign transactions of the model.  TxHash covers the body only, so two
\* encodings that differ in the witness have the same txid.
\*   outs:  TRUE when the outputs are the custody output plus one return-data output
\*   value, chainId, addr: what the two outputs carry
TxTable == <<
    [outs |-> TRUE,  value |-> 5, chainId |-> 2, addr |-> "A"],
    [outs |-> FALSE, value |-> 9, chainId |-> 2, addr |-> "A"],
    [outs |-> TRUE,  value |-> 7, chainId |-> 3, addr |-> "B"] >>

\* Bytes that do not decode (as a transaction, or as a merkle block).
BadBytes == [bad |-> TRUE]

Txs == [body : 1..Len(TxTable), witness : {0}] \cup {[body |-> 1, witness |-> 1]}

TxHash(tx) == tx.body

\* The foreign chain the SPV client follows: the txids of the block at height h.
Block(h) == IF h = 1 THEN <<1, 2>> ELSE IF h = 2 THEN <<3>> ELSE <<LeafMax>>

\* One level up: the hashes of consecutive pairs (the list has even length).
RECURSIVE MerkleLevel(_)
MerkleLevel(hs) ==
    IF Len(hs) = 0 THEN <<>>
    ELSE <<HashMerkleBranches(hs[1], hs[2])>> \o MerkleLevel(SubSeq(hs, 3, Len(hs)))

\* The merkle root a block header commits to (an odd level repeats its last hash).
RECURSIVE MerkleRootOf(_)
MerkleRootOf(hs) ==
    IF Len(hs) = 1 THEN hs[1]
    ELSE LET padded == IF Len(hs) % 2 = 1 THEN Append(hs, hs[Len(hs)]) ELSE hs
         IN  MerkleRootOf(MerkleLevel(padded))

HeaderMerkleRoot(h) == MerkleRootOf(Block(h))

-----------------------------------------------------------------------------
(* The merkle block a proof decodes to (wire_bch.MsgMerkleBlock) and the   *)
(* partial-merkle-tree walk of merkleblock.ExtractMatches.                 *)

\* Greatest transaction count an enumerated proof declares.
MaxTx == 2
\* Bits in one byte of MsgMerkleBlock.Flags.
FlagBits == 8

\* Sequences over S of length 0..n.
RECURSIVE SeqsUpTo(_, _)
SeqsUpTo(S, n) ==
    IF n = 0 THEN {<<>>}
    ELSE LET shorter == SeqsUpTo(S, n - 1)
         IN  shorter \cup {Append(q, x) : q \in {t \in shorter : Len(t) = n - 1}, x \in S}

\* The hash values a proof may list: every txid.
ProofHashValues == 1..Len(TxTable)

\* One flag byte whose first MaxBits bits are b and whose other bits are 0.
FlagByte(b) == [i \in 1..FlagBits |-> IF i <= Len(b) THEN b[i] ELSE FALSE]

Proofs ==
    {[numTx |-> n, hashes |-> hs, bits |-> FlagByte(b)] :
        n \in 1..MaxTx,
        hs \in SeqsUpTo(ProofHashValues, MaxHashes) \ {<<>>},
        b \in [1..MaxBits -> BOOLEAN]}

\* Number of nodes of the tree of numTx leaves at the given height (0 = leaves).
CalcTreeWidth(numTx, height) == (numTx + Pow2(height) - 1) \div Pow2(height)

RECURSIVE TreeHeight(_, _)
TreeHeight(numTx, h) == IF CalcTreeWidth(numTx, h) > 1 THEN TreeHeight(numTx, h + 1) ELSE h

\* traverseAndExtract: walks the partial tree depth first, consuming one flag bit
\* per node and one hash per leaf or pruned subtree.  w is the walk's state:
\* bitsUsed, hashUsed, bad, matches.  Returns the node's hash and the new state.
RECURSIVE TraverseAndExtract(_, _, _, _)
TraverseAndExtract(mb, height, pos, w) ==
    IF w.bitsUsed >= Len(mb.bits)
    THEN [hash |-> NilHash, w |-> [w EXCEPT !.bad = TRUE]]
    ELSE
      LET parentOfMatch == mb.bits[w.bitsUsed + 1]
          w1 == [w EXCEPT !.bitsUsed = @ + 1]
      IN
      IF height = 0 \/ ~parentOfMatch
      THEN IF w1.hashUsed >= Len(mb.hashes)
           THEN [hash |-> NilHash, w |-> [w1 EXCEPT !.bad = TRUE]]
           ELSE LET h == mb.hashes[w1.hashUsed + 1]
                IN  [hash |-> h,
                     w |-> [w1 EXCEPT !.hashUsed = @ + 1,
                                      !.matches = IF height = 0 /\ parentOfMatch
                                                  THEN Append(@, h) ELSE @]]
      ELSE
        LET l == TraverseAndExtract(mb, height - 1, pos * 2, w1)
            hasRight == pos * 2 + 1 < CalcTreeWidth(mb.numTx, height - 1)
            r == IF hasRight
                 THEN TraverseAndExtract(mb, height - 1, pos * 2 + 1, l.w)
                 ELSE l
            \* the two children of a node must differ when both exist
            dup == hasRight /\ l.hash = r.hash
        IN  [hash |-> HashMerkleBranches(l.hash, r.hash),
             w |-> [r.w EXCEPT !.bad = @ \/ dup]]

\* ExtractMatches, BadTree and GetMatches of the merkle block built from mb:
\* root is NilHash where ExtractMatches returns nil.
ExtractMatches(mb) ==
    LET w0 == [bitsUsed |-> 0, hashUsed |-> 0, bad |-> FALSE, matches |-> <<>>]
        t  == TraverseAndExtract(mb, TreeHeight(mb.numTx, 0), 0, w0)
        refused ==
            \/ mb.numTx = 0
            \/ Len(mb.hashes) > mb.numTx
            \/ Len(mb.bits) < Len(mb.hashes)
        unfinished ==
            \/ (t.w.bitsUsed + FlagBits - 1) \div FlagBits
                 # (Len(mb.bits) + FlagBits - 1) \div FlagBits
            \/ t.w.hashUsed # Len(mb.hashes)
    IN  IF refused
        THEN [root |-> NilHash, bad |-> FALSE, matches |-> <<>>]
        ELSE [root |-> IF t.w.bad \/ unfinished THEN NilHash ELSE t.hash,
              bad |-> t.w.bad,
              matches |-> t.w.matches]

SeqToSet(q) == {q[i] : i \in 1..Len(q)}

-----------------------------------------------------------------------------
(* makeBtcTx *)

\* btcutil.MaxSatoshi, scaled down to the model's integers.
MaxSatoshi == 2100000
\* The fixed fee of an outbound transaction.
FEE == 1000
\* Greatest number of notifications a behaviour appends.
MaxNotify == 2
\* Greatest number of outputs the UTXO oracle selects.
MaxIns == 2

Dests == <<"addrA", "addrB">>
CustodyAddr == "custody"

AmountValues == {0, 1, 500000, 1600000, MaxSatoshi + 1}

\* The requests: the maps from one or more destinations to an amount, and the empty map.
Requests ==
    UNION {[D -> AmountValues] : D \in SUBSET SeqToSet(Dests)}

\* What the UTXO oracle may answer: the selected total.
UtxoSums == {0, 400000, 501000, 600000, 2000000}

NoTx == [ins |-> 0, outs |-> <<>>]

RECURSIVE SumOver(_, _)
SumOver(f, D) ==
    IF D = {} THEN 0
    ELSE LET d == CHOOSE x \in D : TRUE IN f[d] + SumOver(f, D \ {d})

RECURSIVE OutputSum(_)
OutputSum(outs) == IF outs = <<>> THEN 0 ELSE outs[1].value + OutputSum(Tail(outs))

\* getUnsignedTx: one input per selected output, one output per destination and a
\* change output to the custody address when change > 0.
RECURSIVE DestOutputs(_, _)
DestOutputs(amounts, i) ==
    IF i > Len(Dests) THEN <<>>
    ELSE (IF Dests[i] \in DOMAIN amounts
          THEN <<[addr |-> Dests[i], value |-> amounts[Dests[i]]]>> ELSE <<>>)
         \o DestOutputs(amounts, i + 1)

getUnsignedTx(nIns, amounts, change) ==
    [ins |-> nIns,
     outs |-> DestOutputs(amounts, 1)
              \o (IF change > 0 THEN <<[addr |-> CustodyAddr, value |-> change]>> ELSE <<>>)]

\* Lines 185-193: every amount is in 1..MaxSatoshi, and so is their sum.
AmountsOk(amounts) ==
    /\ \A d \in DOMAIN amounts : amounts[d] > 0 /\ amounts[d] <= MaxSatoshi
    /\ SumOver(amounts, DOMAIN amounts) <= MaxSatoshi

\* Lines 214-218: the change left after the amounts and the fee.
Change_noFee(sum, amountSum) == sum - amountSum
Change(sum, amountSum) == sum - amountSum - FEE

NotEnough(change) == change < 0

MFail(why) == [res |-> why, change |-> 0, put |-> FALSE, tx |-> NoTx]

\* Lines 225-229, mtx.BtcEncode: the bytes of a transaction; the number of inputs
\* and of outputs, then for every output the byte of its address and its value
\* in ValueBytes bytes, least significant first.
ValueBytes == 3
AddrByte(addr) == CHOOSE i \in 1..(Len(Dests) + 1) :
                     IF i <= Len(Dests) THEN Dests[i] = addr ELSE addr = CustodyAddr
LittleEndian(v, n) == [i \in 1..n |-> (v \div Pow2(8 * (i - 1))) % 256]

RECURSIVE EncodeOuts(_)
EncodeOuts(outs) ==
    IF outs = <<>> THEN <<>>
    ELSE <<AddrByte(outs[1].addr)>> \o LittleEndian(outs[1].value, ValueBytes)
         \o EncodeOuts(Tail(outs))

BtcEncode(mtx) == <<mtx.ins, Len(mtx.outs)>> \o EncodeOuts(mtx.outs)

\* hex.EncodeToString: two digits for every byte, the high one first.
HexDigits == <<"0", "1", "2", "3", "4", "5", "6", "7",
               "8", "9", "a", "b", "c", "d", "e", "f">>
HexEncode(bytes) ==
    [i \in 1..(2 * Len(bytes)) |->
        IF i % 2 = 1 THEN HexDigits[(bytes[(i + 1) \div 2] \div 16) + 1]
        ELSE HexDigits[(bytes[i \div 2] % 16) + 1]]

\* Lines 233-237: the notification a successful makeBtcTx appends.
Notify_twice(ns, bytes) ==
    Append(Append(ns, <<"makeBtcTx", HexEncode(bytes)>>), <<"makeBtcTx", HexEncode(bytes)>>)
Notify(ns, bytes) == Append(ns, <<"makeBtcTx", HexEncode(bytes)>>)

\* makeBtcTx(service, amounts) against the oracle's answer (nIns outputs of total sum).
makeBtcTx(amounts, nIns, sum, fault) ==
    IF DOMAIN amounts = {} THEN MFail("noAmount")
    ELSE IF \E d \in DOMAIN amounts : amounts[d] <= 0 \/ amounts[d] > MaxSatoshi
         THEN MFail("wrongAmount")
    ELSE LET amountSum == SumOver(amounts, DOMAIN amounts) IN
         IF amountSum > MaxSatoshi THEN MFail("sumExceeds")
         ELSE IF fault = "utxo" THEN MFail("utxoError")
         ELSE IF sum <= 0 \/ nIns = 0 THEN MFail("utxoNotFound")
         ELSE LET change == Change(sum, amountSum) IN
              IF NotEnough(change)
              THEN [res |-> "notEnoughUtxos", change |-> change, put |-> FALSE, tx |-> NoTx]
              ELSE IF fault = "build" THEN MFail("buildError")
              ELSE [res |-> "ok", change |-> change, put |-> TRUE,
                    tx |-> getUnsignedTx(nIns, amounts, change)]

\* What may go wrong outside the call's inputs: the UTXO request returns an
\* error (line 208), or getUnsignedTx or the serialization does (lines 220-229).
BuilderFaults == {"none", "utxo", "build"}

\* The error results that are a collaborator's fault.
FaultResults == {"utxoError", "buildError"}

\* BTCHandler.MakeTransaction / makeBtcTx: one call on the request. A UTXO
\* request that fails selects nothing; the fault is recorded when the call met it.
MakeTransaction ==
    \E nIns \in 0..MaxIns, sum \in UtxoSums, fault \in BuilderFaults :
        LET r == makeBtcTx(req, nIns, sum, fault) IN
        /\ fault = "utxo" => nIns = 0 /\ sum = 0
        /\ r.put => Len(notifications) < MaxNotify
        /\ btcTx' = IF r.put THEN r.tx ELSE btcTx
        /\ notifications' = IF r.put THEN Notify(notifications, BtcEncode(r.tx))
                            ELSE notifications
        /\ lastM' = [nIns |-> nIns, sum |-> sum,
                     fault |-> IF r.res \in FaultResults THEN fault ELSE "none",
                     res |-> r.res, change |-> r.change]
        /\ UNCHANGED req

InitBuilderIdle ==
    /\ req = << >>
    /\ btcTx = NoTx
    /\ notifications = <<>>
    /\ lastM = [nIns |-> 0, sum |-> 0, fault |-> "none", res |-> "none", change |-> 0]

InitBuilder ==
    /\ req \in Requests
    /\ btcTx = NoTx
    /\ notifications = <<>>
    /\ lastM = [nIns |-> 0, sum |-> 0, fault |-> "none", res |-> "none", change |-> 0]

-----------------------------------------------------------------------------
(* Governance: node_manager.go *)

\* Width, in bits, the model gives Go's uint64.
LongBits == 20
Uint64Mod == Pow2(LongBits)
U64(x) == x % Uint64Mod

\* Greatest View the model commits to.
MaxView == 3
\* Greatest stake (Pos) an AddPos call is made on.
MaxPos == 3
\* Greatest amount the contract pays out for a pubkey beyond what came in for it.
MaxDebt == 2
\* Greatest amount the contract holds for a pubkey.
MaxEscrow == 4

\* The genesis configuration (config.VBFTConfig) and the values InitConfig derives.
GenesisConfig ==
    [N |-> 7, C |-> 2, K |-> 7, L |-> 112, BlockMsgDelay |-> 10000,
     HashMsgDelay |-> 10000, PeerHandshakeTimeout |-> 10, MaxBlockChangeView |-> 10000]
GenesisMinInitStake == 1
GenesisCandidateNum == 7 * 7

ZeroConfig ==
    [N |-> 0, C |-> 0, K |-> 0, L |-> 0, BlockMsgDelay |-> 0,
     HashMsgDelay |-> 0, PeerHandshakeTimeout |-> 0, MaxBlockChangeView |-> 0]

\* Genesis peers are the pubkeys 1..g (g at most GenesisCandidateNum); the
\* pubkey that applies is the one after GenesisCandidateNum.
Applicants == {GenesisCandidateNum + 1}
\* The pubkeys governance calls are made for: one genesis peer and the applicants.
FocusKeys == {1} \cup Applicants

Operator == "op"
Users == {"u1", "u2"}
Callers == Users \cup {Operator}

\* The stake of a genesis peer and the owner of each.
GenesisPos == 2
GenesisAddress(k) == IF k = 1 THEN "u1" ELSE "g"

\* The store's maps (peer pool, applications, black list, index records) are
\* functions whose domain is the set of pubkeys that have an entry.
NoEntries == [k \in {} |-> 0]
Has(m, k) == k \in DOMAIN m
PutEntry(m, k, v) == [x \in DOMAIN m \cup {k} |-> IF x = k THEN v ELSE m[x]]
DeleteEntry(m, k) == [x \in DOMAIN m \ {k} |-> m[x]]

\* native.GetTx().Hash(): a transaction is identified by the call it makes and
\* the view and ledger height it is executed at.
TxHashOf(op, view, height) == <<op, view, height>>
GenesisTxHash == TxHashOf("initConfig", 0, 0)

\* Lines 118 and 162-167: the governance view InitConfig stores.
GenesisView_zero(height, txHash) == [View |-> 0, Height |-> height, TxHash |-> txHash]
GenesisView(height, txHash) == [View |-> 1, Height |-> height, TxHash |-> txHash]

\* InitConfig with the peers 1..g: the state after construction.
InitConfig(g) ==
    /\ peerPoolMap = [k \in 1..g |->
          [Index |-> k, Address |-> GenesisAddress(k), Status |-> "Consensus",
           Pos |-> GenesisPos, LockPos |-> 0]]
    /\ peerApply = NoEntries
    /\ blackList = NoEntries
    /\ peerIndex = [k \in 1..g |-> k]
    /\ candidateIndex = g + 1
    /\ governanceView = GenesisView(0, GenesisTxHash)
    /\ config = GenesisConfig
    /\ preConfig = [SetView |-> 0, Configuration |-> ZeroConfig]
    /\ globalParam = [MinInitStake |-> GenesisMinInitStake,
                      CandidateNum |-> GenesisCandidateNum]
    /\ custody = g * GenesisPos
    /\ blockHeight = 0
    /\ genesis = g
    /\ escrow = [k \in 1..g |-> GenesisPos]
    /\ last = [op |-> "initConfig", key |-> 0, res |-> "ok"]

\* GetView
View == governanceView.View

IsActive(item) == item.Status \in {"Candidate", "Consensus"}

\* The count the handlers take over the pool: peers with status Candidate or Consensus.
ActiveCount(pool) == Cardinality({k \in DOMAIN pool : IsActive(pool[k])})

\* utils.ValidateOwner(native, address): the transaction is witnessed by address.
ValidateOwner(caller, address) == caller = address

\* appCallTransferOnt: the ledger after a transfer for pubkey k into the contract
\* and out of it, and after no transfer.
EscrowOf(k) == IF Has(escrow, k) THEN escrow[k] ELSE 0

TransferIn(k, amount) ==
    [custody |-> custody + amount, escrow |-> PutEntry(escrow, k, EscrowOf(k) + amount)]

TransferOut(k, amount) ==
    [custody |-> custody - amount, escrow |-> PutEntry(escrow, k, EscrowOf(k) - amount)]

NoTransfer == [custody |-> custody, escrow |-> escrow]

\* A transfer out of the contract succeeds when the collaborator accepts it and the
\* contract holds the amount.
CanPay(amount, xferOk) == xferOk /\ custody >= amount

\* The store as one record, and a call's outcome: result, new store, new ledger.
Store ==
    [peerPoolMap |-> peerPoolMap, peerApply |-> peerApply, blackList |-> blackList,
     peerIndex |-> peerIndex, candidateIndex |-> candidateIndex,
     governanceView |-> governanceView, config |-> config, preConfig |-> preConfig,
     globalParam |-> globalParam]

Outcome(res, st, xfer) == [res |-> res, st |-> st, xfer |-> xfer]

\* An error return before any write.
Rejected(why) == Outcome(why, Store, NoTransfer)

\* RegisterCandidate(PeerPubkey k, Address, Pos), witnessed by caller.
RegisterCandidate(k, address, pos, caller, xferOk) ==
    IF ~ValidateOwner(caller, address) THEN Rejected("checkWitness")
    ELSE IF Has(blackList, k) THEN Rejected("inBlackList")
    ELSE IF Has(peerApply, k) THEN Rejected("alreadyApplied")
    ELSE IF Has(peerPoolMap, k) THEN Rejected("alreadyInPool")
    ELSE LET st1 == [Store EXCEPT !.peerApply =
                        PutEntry(@, k, [Address |-> address, Pos |-> pos])]
         IN  IF ~xferOk THEN Outcome("transferError", st1, NoTransfer)
             ELSE Outcome("ok", st1, TransferIn(k, pos))

\* UnRegisterCandidate(PeerPubkey k, Address), witnessed by caller.
UnRegisterCandidate(k, address, caller, xferOk) ==
    IF ~ValidateOwner(caller, address) THEN Rejected("checkWitness")
    ELSE IF ~Has(peerApply, k) THEN Rejected("notApplied")
    ELSE IF peerApply[k].Address # address THEN Rejected("notOwner")
    ELSE LET st1 == [Store EXCEPT !.peerApply = DeleteEntry(@, k)]
             pos == peerApply[k].Pos
         IN  IF ~CanPay(pos, xferOk) THEN Outcome("transferError", st1, NoTransfer)
             ELSE Outcome("ok", st1, TransferOut(k, pos))

\* Lines 404-412: the pool is full when the count meets CandidateNum.
PoolFull_offByOne(num, candidateNum) == num > candidateNum
PoolFull(num, candidateNum) == num >= candidateNum

\* Lines 358-367: the pubkey has an index record.
HasIndex_never(k) == FALSE
HasIndex(k) == Has(peerIndex, k)

\* ApproveCandidate(PeerPubkey k), witnessed by caller.
ApproveCandidate(k, caller) ==
    IF ~ValidateOwner(caller, Operator) THEN Rejected("checkWitness")
    ELSE IF ~Has(peerApply, k) THEN Rejected("notApplied")
    ELSE IF peerApply[k].Pos < globalParam.MinInitStake THEN Rejected("initPos")
    ELSE
      LET hasIndex == HasIndex(k)
          index == IF hasIndex THEN peerIndex[k] ELSE candidateIndex
          \* lines 374-391: a new index is allocated and recorded
          st1 == IF hasIndex THEN Store
                 ELSE [Store EXCEPT !.candidateIndex = U32(candidateIndex + 1),
                                    !.peerIndex = PutEntry(@, k, index)]
          item == [Index |-> index, Address |-> peerApply[k].Address,
                   Status |-> "Candidate", Pos |-> peerApply[k].Pos, LockPos |-> 0]
      IN  IF PoolFull(ActiveCount(peerPoolMap), globalParam.CandidateNum)
          THEN Outcome("full", st1, NoTransfer)
          ELSE Outcome("ok", [st1 EXCEPT !.peerPoolMap = PutEntry(@, k, item)],
                       NoTransfer)

\* RejectCandidate(PeerPubkey k), witnessed by caller.
RejectCandidate(k, caller, xferOk) ==
    IF ~ValidateOwner(caller, Operator) THEN Rejected("checkWitness")
    ELSE IF ~Has(peerApply, k) THEN Rejected("notApplied")
    ELSE LET st1 == [Store EXCEPT !.peerApply = DeleteEntry(@, k)]
             pos == peerApply[k].Pos
         IN  IF ~CanPay(pos, xferOk) THEN Outcome("transferError", st1, NoTransfer)
             ELSE Outcome("ok", st1, TransferOut(k, pos))

\* Lines 647-649: the quit is refused when the count, taken before the quit, is at most K.
QuitBlocked_strict(num, k) == num < k
QuitBlocked(num, k) == num <= k

\* Lines 627-638: the configuration QuitNode checks against; a PreConfig staged
\* at the current view replaces the active configuration.
StagedForView_never(pre, view) == FALSE
StagedForView(pre, view) == pre.SetView = view
EffectiveConfig_active == config
EffectiveConfig ==
    IF StagedForView(preConfig, View) THEN preConfig.Configuration ELSE config

\* QuitNode(PeerPubkey k, Address), witnessed by caller.
QuitNode(k, address, caller) ==
    IF ~ValidateOwner(caller, address) THEN Rejected("checkWitness")
    ELSE IF ~Has(peerPoolMap, k) THEN Rejected("notInPool")
    ELSE IF ~IsActive(peerPoolMap[k]) THEN Rejected("wrongStatus")
    ELSE IF peerPoolMap[k].Address # address THEN Rejected("notOwner")
    ELSE IF QuitBlocked(ActiveCount(peerPoolMap), EffectiveConfig.K)
         THEN Rejected("lessThanK")
    ELSE Outcome("ok", [Store EXCEPT !.peerPoolMap[k].Status = "Quiting"], NoTransfer)

\* Lines 736-763 of UpdateConfig: the checks on the configuration, in the code's
\* order and in uint32 arithmetic; L % K with K = 0 is a run-time panic.
ConfigCheck(c, candidateNum) ==
    IF c.C = 0 THEN "zeroC"
    ELSE IF c.K > candidateNum THEN "kTooLarge"
    ELSE IF c.L < U32(16 * c.K) THEN "badL"
    ELSE IF c.K = 0 THEN "panic"
    ELSE IF c.L % c.K # 0 THEN "badL"
    ELSE IF c.K < U32(2 * c.C + 1) THEN "kLessThan2C1"
    ELSE IF c.N < c.K \/ c.K < 7 THEN "badNK"
    ELSE IF c.BlockMsgDelay < 5000 THEN "blockMsgDelay"
    ELSE IF c.HashMsgDelay < 5000 THEN "hashMsgDelay"
    ELSE IF c.PeerHandshakeTimeout < 10 THEN "peerHandshakeTimeout"
    ELSE IF c.MaxBlockChangeView < 10000 THEN "maxBlockChangeView"
    ELSE "ok"

\* UpdateConfig(configuration c), witnessed by caller.
UpdateConfig(c, caller) ==
    IF ~ValidateOwner(caller, Operator) THEN Rejected("checkWitness")
    ELSE LET chk == ConfigCheck(c, ActiveCount(peerPoolMap))
         IN  IF chk # "ok" THEN Rejected(chk)
             ELSE Outcome("ok", [Store EXCEPT !.preConfig =
                                   [SetView |-> View, Configuration |-> c]], NoTransfer)

\* Lines 803-805: the candidate cap is refused when it is below four times K.
CandidateNumTooSmall_three(candidateNum, k) == candidateNum < U32(3 * k)
CandidateNumTooSmall(candidateNum, k) == candidateNum < U32(4 * k)

\* UpdateGlobalParam(globalParam p), witnessed by caller: the record is stored
\* under GLOBAL_PARAM, where every later call reads it.
UpdateGlobalParam(p, caller) ==
    IF ~ValidateOwner(caller, Operator) THEN Rejected("checkWitness")
    ELSE IF CandidateNumTooSmall(p.CandidateNum, config.K) THEN Rejected("candidateNum")
    ELSE IF p.MinInitStake < 1 THEN Rejected("minInitStake")
    ELSE Outcome("ok", [Store EXCEPT !.globalParam = p], NoTransfer)

\* What executeCommitDpos pays out for a pool entry: the stake of a quitting peer
\* and every peer's stake pending withdrawal.
Payout(item) ==
    IF item.Status = "Quiting" THEN item.Pos + item.LockPos ELSE item.LockPos

RECURSIVE SumPayout(_, _)
SumPayout(pool, ks) ==
    IF ks = {} THEN 0
    ELSE LET k == CHOOSE x \in ks : TRUE
         IN  Payout(pool[k]) + SumPayout(pool, ks \ {k})

\* executeCommitDpos on the store st, in the transaction txHash: the staged
\* configuration of this view becomes active, pending withdrawals are paid,
\* quitting peers leave the pool, and the next view starts at the current height.
executeCommitDpos(st, txHash) ==
    LET pool == st.peerPoolMap
        view == st.governanceView.View
        total == SumPayout(pool, {k \in DOMAIN pool : Payout(pool[k]) # 0})
        pool1 == [k \in {x \in DOMAIN pool : pool[x].Status # "Quiting"} |->
                    [pool[k] EXCEPT !.LockPos = 0]]
        st1 == [st EXCEPT
                  !.peerPoolMap = pool1,
                  !.config = IF st.preConfig.SetView = view
                             THEN st.preConfig.Configuration ELSE st.config,
                  !.governanceView = [View |-> U32(view + 1), Height |-> blockHeight,
                                      TxHash |-> txHash]]
    IN  IF total > custody THEN Outcome("transferError", st, NoTransfer)
        ELSE Outcome("ok", st1,
                     [custody |-> custody - total,
                      escrow |-> [k \in DOMAIN escrow \cup DOMAIN pool |->
                                    EscrowOf(k) - (IF Has(pool, k) THEN Payout(pool[k])
                                                   ELSE 0)]])

\* Lines 683-690: a caller other than the operator may commit once the view is
\* MaxBlockChangeView blocks old.
Cycle_strict == U32(blockHeight - governanceView.Height) > config.MaxBlockChangeView
Cycle == U32(blockHeight - governanceView.Height) >= config.MaxBlockChangeView

\* CommitDpos, witnessed by caller, in the transaction txHash.
CommitDpos(caller, txHash) ==
    IF ~ValidateOwner(caller, Operator) /\ ~Cycle THEN Rejected("authFailed")
    ELSE executeCommitDpos(Store, txHash)

\* Lines 844-853 and 897-906: the checks AddPos and ReducePos share.
PosCheck(k, address, caller) ==
    IF ~ValidateOwner(caller, address) THEN "checkWitness"
    ELSE IF ~Has(peerPoolMap, k) THEN "notInPool"
    ELSE IF ~IsActive(peerPoolMap[k]) THEN "wrongStatus"
    ELSE IF peerPoolMap[k].Address # address THEN "notOwner"
    ELSE "ok"

\* AddPos(PeerPubkey k, Address, Pos), witnessed by caller.
AddPos(k, address, pos, caller, xferOk) ==
    LET chk == PosCheck(k, address, caller)
        st1 == [Store EXCEPT !.peerPoolMap[k].Pos = U64(@ + pos)]
    IN  IF chk # "ok" THEN Rejected(chk)
        ELSE IF ~xferOk THEN Outcome("transferError", st1, NoTransfer)
        ELSE Outcome("ok", st1, TransferIn(k, pos))

\* ReducePos(PeerPubkey k, Address, Pos), witnessed by caller.
ReducePos(k, address, pos, caller) ==
    LET chk == PosCheck(k, address, caller)
        st1 == [Store EXCEPT !.peerPoolMap[k].Pos = U64(@ - pos),
                             !.peerPoolMap[k].LockPos = U64(@ + pos)]
    IN  IF chk # "ok" THEN Rejected(chk)
        ELSE Outcome("ok", st1, NoTransfer)

\* Lines 526-528: blacklisting a peer of this status forces an epoch commit.
CommitNeeded_never(status) == FALSE
CommitNeeded(status) == status = "Consensus"

\* Lines 515-519: the snapshot stored under the pubkey's black-list key.
BlackListItem(item) == [Address |-> item.Address, Pos |-> item.Pos]

\* Lines 506-509: hex.DecodeString accepts every pubkey but the malformed one.
BadPubkey == 0
IsHex(k) == k # BadPubkey

\* Lines 504-531: the loop of BlackNode over the list from position i on. Each
\* black-list record is written to the store as the loop goes; the statuses
\* change in the pool map read at the start, which is stored after the loop.
RECURSIVE BlackLoop(_, _, _, _, _)
BlackLoop(keys, i, pool, bl, commit) ==
    IF i > Len(keys)
    THEN [err |-> "none", pool |-> pool, blackList |-> bl, commit |-> commit]
    ELSE IF ~IsHex(keys[i])
    THEN [err |-> "pubkeyFormat", pool |-> pool, blackList |-> bl, commit |-> commit]
    ELSE IF ~Has(pool, keys[i])
    THEN [err |-> "notInPool", pool |-> pool, blackList |-> bl, commit |-> commit]
    ELSE BlackLoop(keys, i + 1,
                   [pool EXCEPT ![keys[i]].Status = "Black"],
                   PutEntry(bl, keys[i], BlackListItem(pool[keys[i]])),
                   commit \/ CommitNeeded(pool[keys[i]].Status))

\* BlackNode(PeerPubkeyList keys), witnessed by caller, in the transaction txHash.
BlackNode(keys, caller, txHash) ==
    IF ~ValidateOwner(caller, Operator) THEN Rejected("checkWitness")
    ELSE LET loop == BlackLoop(keys, 1, peerPoolMap, blackList, FALSE)
             st1 == [Store EXCEPT !.blackList = loop.blackList]
             st2 == [st1 EXCEPT !.peerPoolMap = loop.pool]
         IN  IF loop.err # "none" THEN Outcome(loop.err, st1, NoTransfer)
             ELSE IF loop.commit THEN executeCommitDpos(st2, txHash)
             ELSE Outcome("ok", st2, NoTransfer)

\* Line 582: the store after WhiteNode has removed the black-list record.
Whitened_restored(st, k) ==
    [st EXCEPT !.blackList = DeleteEntry(@, k),
               !.peerPoolMap = IF k \in DOMAIN @ THEN [@ EXCEPT ![k].Status = "Candidate"]
                               ELSE @]
Whitened(st, k) == [st EXCEPT !.blackList = DeleteEntry(@, k)]

\* WhiteNode(PeerPubkey k), witnessed by caller.
WhiteNode(k, caller) ==
    IF ~ValidateOwner(caller, Operator) THEN Rejected("checkWitness")
    ELSE IF ~Has(blackList, k) THEN Rejected("notInBlackList")
    ELSE Outcome("ok", Whitened(Store, k), NoTransfer)

\* A governance call: the handler's outcome becomes the next state.
Apply(op, k, r) ==
    /\ \A j \in DOMAIN r.xfer.escrow : r.xfer.escrow[j] \in -MaxDebt..MaxEscrow
    /\ peerPoolMap' = r.st.peerPoolMap
    /\ peerApply' = r.st.peerApply
    /\ blackList' = r.st.blackList
    /\ peerIndex' = r.st.peerIndex
    /\ candidateIndex' = r.st.candidateIndex
    /\ governanceView' = r.st.governanceView
    /\ config' = r.st.config
    /\ preConfig' = r.st.preConfig
    /\ globalParam' = r.st.globalParam
    /\ custody' = r.xfer.custody
    /\ escrow' = r.xfer.escrow
    /\ last' = [op |-> op, key |-> k, res |-> r.res]
    /\ UNCHANGED <<blockHeight, genesis>>

\* The hash of the transaction that makes the call op in this state.
CurrentTxHash(op) == TxHashOf(op, View, blockHeight)

\* The stakes an application declares, and the amounts AddPos and ReducePos move.
PosValues == {1, 2}

\* The configurations submitted to UpdateConfig: the genesis one, one with K and
\* N raised by one, one with C = 0 and one with K = 0.
ConfigInputs ==
    {GenesisConfig,
     [GenesisConfig EXCEPT !.N = 8, !.K = 8, !.L = 128],
     [GenesisConfig EXCEPT !.C = 0],
     [GenesisConfig EXCEPT !.K = 0]}

CallRegisterCandidate ==
    \E k \in Applicants, address \in Users, pos \in PosValues,
       caller \in Users, xferOk \in BOOLEAN :
        Apply("register", k, RegisterCandidate(k, address, pos, caller, xferOk))

CallUnRegisterCandidate ==
    \E k \in Applicants, address \in Users, caller \in Users, xferOk \in BOOLEAN :
        Apply("unRegister", k, UnRegisterCandidate(k, address, caller, xferOk))

CallApproveCandidate ==
    \E k \in Applicants, caller \in Callers :
        Apply("approve", k, ApproveCandidate(k, caller))

CallRejectCandidate ==
    \E k \in Applicants, caller \in Callers, xferOk \in BOOLEAN :
        Apply("reject", k, RejectCandidate(k, caller, xferOk))

\* AddPos is called on a stake it keeps within MaxPos, and on one it takes past
\* the greatest uint64.
CallAddPos ==
    \E k \in Applicants, address \in Users, pos \in PosValues,
       caller \in Users, xferOk \in BOOLEAN :
        /\ Has(peerPoolMap, k) =>
              \/ peerPoolMap[k].Pos + pos <= MaxPos
              \/ peerPoolMap[k].Pos + pos >= Uint64Mod
        /\ Apply("addPos", k, AddPos(k, address, pos, caller, xferOk))

CallReducePos ==
    \E k \in Applicants, address \in Users, pos \in PosValues, caller \in Users :
        /\ Has(peerPoolMap, k) => peerPoolMap[k].LockPos + pos <= MaxPos
        /\ Apply("reducePos", k, ReducePos(k, address, pos, caller))

CallQuitNode ==
    \E k \in FocusKeys, address \in Users, caller \in Users :
        Apply("quit", k, QuitNode(k, address, caller))

CallUpdateConfig ==
    \E c \in ConfigInputs, caller \in Callers :
        Apply("updateConfig", 0, UpdateConfig(c, caller))

\* The parameters submitted to UpdateGlobalParam: a cap just below and at four
\* times the genesis K, at four times the K raised by one, and one above the
\* genesis cap; a least stake of 0, 1 and 2.
ParamInputs ==
    {[MinInitStake |-> 1, CandidateNum |-> 4 * GenesisConfig.K - 1],
     [MinInitStake |-> 0, CandidateNum |-> 4 * GenesisConfig.K],
     [MinInitStake |-> 1, CandidateNum |-> 4 * GenesisConfig.K],
     [MinInitStake |-> 1, CandidateNum |-> 4 * GenesisConfig.K + 4],
     [MinInitStake |-> 2, CandidateNum |-> GenesisCandidateNum + 1]}

CallUpdateGlobalParam ==
    \E p \in ParamInputs, caller \in Callers :
        Apply("updateGlobalParam", p, UpdateGlobalParam(p, caller))

CallCommitDpos ==
    \E caller \in Callers :
        /\ View < MaxView
        /\ Apply("commitDpos", caller, CommitDpos(caller, CurrentTxHash("commitDpos")))

\* The lists BlackNode is called with: up to MaxList pubkeys, repeats included,
\* and two lists that hold a malformed pubkey.
MaxList == 2
PeerLists == SeqsUpTo(FocusKeys, MaxList) \cup {<<BadPubkey>>, <<1, BadPubkey>>}

CallBlackNode ==
    \E keys \in PeerLists, caller \in Callers :
        /\ View < MaxView
        /\ Apply("blackNode", keys, BlackNode(keys, caller, CurrentTxHash("blackNode")))

CallWhiteNode ==
    \E k \in FocusKeys, caller \in Callers :
        Apply("whiteNode", k, WhiteNode(k, caller))

\* The ledger heights calls are made at after genesis: around the height at
\* which the first view is MaxBlockChangeView blocks old.
LedgerHeights == {GenesisConfig.MaxBlockChangeView - 1, GenesisConfig.MaxBlockChangeView}

\* native.GetHeight: the ledger grows between two calls.
AdvanceHeight ==
    /\ \E h \in LedgerHeights : h > blockHeight /\ blockHeight' = h
    /\ UNCHANGED <<storeVars, custody, historyVars>>

\* The configurations of the grid UpdateConfig is checked on: around every
\* bound of lines 736-763, and where 16*K and 2*C+1 leave the range of uint32.
ConfigGrid ==
    [N : {7, 8},
     C : {0, 2, 4, Pow2(WordBits - 1)},
     K : {0, 6, 7, 8, Pow2(WordBits - 4)},
     L : {111, 112, 128},
     BlockMsgDelay : {4999, 5000},
     HashMsgDelay : {4999, 5000},
     PeerHandshakeTimeout : {9, 10},
     MaxBlockChangeView : {9999, 10000}]

CallUpdateConfigGrid ==
    \E c \in ConfigGrid, caller \in Callers :
        Apply("updateConfig", 0, UpdateConfig(c, caller))

\* Genesis with one peer more than K, and with as many peers as CandidateNum.
SmallGenesis == GenesisConfig.K + 1
FullGenesis == GenesisCandidateNum

-----------------------------------------------------------------------------
(* verifyBtcTx *)

\* What may go wrong outside the call's inputs: an SPV request, the side-chain
\* lookup or the CacheDB read returns an error.
Faults == {"none", "spvHeight", "sideChain", "cacheGet", "spvHeader"}

NoParam == [Value |-> 0, ChainId |-> 0, Addr |-> ""]

\* checkTxOutputs and targetChainParam.resolve on a decoded transaction.
checkTxOutputs(tx) == TxTable[tx.body].outs

resolve(tx) ==
    [Value |-> TxTable[tx.body].value,
     ChainId |-> TxTable[tx.body].chainId,
     Addr |-> TxTable[tx.body].addr]

\* GetHeaderFromSpv: the SPV client has the headers up to its best height.
HasHeader(height) == height <= spvHeight

\* The confirmation test of line 109, in uint32 arithmetic.
NotConfirmed(besth, height, wait) == U32(besth - height) < U32(wait - 1)

\* The replay guard of lines 139-146: the key of txid holds the sentinel.
AlreadyVerified_never(txid) == FALSE
AlreadyVerified(txid) == txid \in verified

\* The comparison of line 172.
MerkleRootEqual_any(root, height) == TRUE
MerkleRootEqual(root, height) == root = HeaderMerkleRoot(height)

\* An error return: nothing resolved, nothing written.
VFail_early(why) == [res |-> why, param |-> NoParam, put |-> why = "rootNotEqual"]
VFail(why) == [res |-> why, param |-> NoParam, put |-> FALSE]

\* verifyBtcTx(native, proof, tx, height, btcChainID): the outcome (res = "ok" or
\* the error), the resolved parameter and whether the replay sentinel is written.
verifyBtcTx(proof, tx, height, fault) ==
    IF fault = "spvHeight" THEN VFail("spvHeightError")
    ELSE IF fault = "sideChain" THEN VFail("sideChainError")
    ELSE IF NotConfirmed(spvHeight, height, blocksToWait) THEN VFail("notConfirmed")
    ELSE IF tx = BadBytes THEN VFail("txDecode")
    ELSE IF proof = BadBytes THEN VFail("proofDecode")
    ELSE IF TxHash(tx) \notin SeqToSet(proof.hashes) THEN VFail("notInProof")
    ELSE IF fault = "cacheGet" THEN VFail("cacheGetError")
    ELSE IF AlreadyVerified(TxHash(tx)) THEN VFail("alreadyExist")
    ELSE IF ~checkTxOutputs(tx) THEN VFail("wrongOutputs")
    ELSE LET m == ExtractMatches(proof) IN
         IF m.root = NilHash \/ m.bad \/ Len(m.matches) = 0 THEN VFail("badTree")
         ELSE IF fault = "spvHeader" \/ ~HasHeader(height) THEN VFail("headerError")
         ELSE IF ~MerkleRootEqual(m.root, height) THEN VFail("rootNotEqual")
         ELSE [res |-> "ok", param |-> resolve(tx), put |-> TRUE]

\* BTCHandler.Verify: one call of a relayer, with its claimed height.
VerifyCall(who, s, height, fault) ==
    LET r == verifyBtcTx(s.proof, s.tx, height, fault) IN
    /\ verified' = IF r.put THEN verified \cup {TxHash(s.tx)} ELSE verified
    /\ lastV' = [who |-> who, height |-> height, fault |-> fault,
                 res |-> r.res, param |-> r.param]
    /\ acceptedBy' = IF r.res = "ok" THEN acceptedBy \cup {who} ELSE acceptedBy
    /\ UNCHANGED <<sub, spvHeight, blocksToWait>>

\* The heights a relayer claims.
ClaimHeights == 1..MaxHeight

\* The submission of an honest relayer: transaction 1 with the proof of block 1
\* that matches it, claimed at height 1.
HonestSub ==
    [proof |-> [numTx |-> 2, hashes |-> <<1, 2>>,
                bits |-> FlagByte(<<TRUE, TRUE, FALSE>>)],
     tx |-> [body |-> 1, witness |-> 0]]

\* A merkle block that decodes and whose tree ExtractMatches walks to a root with
\* at least one match.
WellFormed(mb) ==
    LET m == ExtractMatches(mb) IN m.root # NilHash /\ ~m.bad /\ Len(m.matches) > 0

\* A merkle block whose two leaves carry the same hash (a bad tree).
DupProof == [numTx |-> 2, hashes |-> <<1, 1>>, bits |-> FlagByte(<<TRUE, TRUE, TRUE>>)]

\* What a relayer submits in the behaviours that follow the verifier over several
\* calls: a well-formed proof, the bad tree or bytes that do not decode, with any
\* transaction.
Submissions ==
    [proof : {p \in Proofs : WellFormed(p)} \cup {DupProof, BadBytes},
     tx : Txs \cup {BadBytes}]

Verify == \E h \in ClaimHeights, f \in Faults : VerifyCall("sub", sub, h, f)

\* A call in which the oracles and the store answer.
VerifyProof == \E h \in ClaimHeights : VerifyCall("sub", sub, h, "none")

VerifyHonest == VerifyCall("honest", HonestSub, 1, "none")

\* The foreign chain grows by one block.
SpvAdvance ==
    /\ spvHeight < MaxHeight
    /\ spvHeight' = spvHeight + 1
    /\ UNCHANGED <<sub, verified, blocksToWait, lastV, acceptedBy>>

InitVerifier ==
    /\ sub \in Submissions
    /\ verified = {}
    /\ spvHeight = 1
    /\ blocksToWait \in 0..MaxWait
    /\ lastV = [who |-> "none", height |-> 0, fault |-> "none",
                res |-> "none", param |-> NoParam]
    /\ acceptedBy = {}
    /\ InitBuilderIdle
    /\ InitConfig(SmallGenesis)

NextVerifier ==
    \/ Verify /\ UNCHANGED <<builderVars, govVars>>
    \/ VerifyHonest /\ UNCHANGED <<builderVars, govVars>>
    \/ SpvAdvance /\ UNCHANGED <<builderVars, govVars>>

SpecVerifier == InitVerifier /\ [][NextVerifier]_vars

\* The verifier on every enumerated proof: the SPV client is at any height and
\* one confirmation is required (BlocksToWait = 1).
InitProof ==
    /\ sub \in [proof : Proofs \cup {BadBytes}, tx : Txs \cup {BadBytes}]
    /\ verified = {}
    /\ spvHeight \in 1..MaxHeight
    /\ blocksToWait = 1
    /\ lastV = [who |-> "none", height |-> 0, fault |-> "none",
                res |-> "none", param |-> NoParam]
    /\ acceptedBy = {}
    /\ InitBuilderIdle
    /\ InitConfig(SmallGenesis)

NextProof == VerifyProof /\ UNCHANGED <<builderVars, govVars>>

SpecProof == InitProof /\ [][NextProof]_vars

-----------------------------------------------------------------------------
(* Properties of the verifier *)

\* The (proof, tx) pair of the call lastV describes.
SubOf(who) == IF who = "honest" THEN HonestSub ELSE sub

\* A step that is a Verify call (a call that repeats the last one with the same
\* outcome changes nothing and needs no check).
IsVerifyStep == lastV' # lastV

\* The call got as far as the replay check: both oracles and the store answered and
\* the confirmation gate passed.
ReachedReplayCheck(l, besth) ==
    /\ l.fault \notin {"spvHeight", "sideChain", "cacheGet"}
    /\ ~(U32(besth - l.height) < U32(blocksToWait - 1))

\* C1 (as stated): once Verify has accepted a (proof, tx) pair, every later Verify of
\* the identical pair fails with the 'already processed' error.
C1_ReplayAlwaysAlreadyProcessed ==
    [][(IsVerifyStep /\ lastV'.who \in acceptedBy) => lastV'.res = "alreadyExist"]_vars

\* C1 (amended): a txid is accepted at most once, so every later Verify of an
\* accepted pair fails and returns no descriptor; the failure is 'already processed'
\* whenever the call reaches the replay check, and otherwise the error of the
\* earlier step (oracle or store error, not confirmed at the claimed height).
C1_ReplaySafety ==
    [][/\ verified \subseteq verified'
       /\ IsVerifyStep =>
            LET s == SubOf(lastV'.who) IN
            /\ (s.tx # BadBytes /\ TxHash(s.tx) \in verified)
                  => (lastV'.res # "ok" /\ lastV'.param = NoParam)
            /\ lastV'.who \in acceptedBy
                  => /\ lastV'.res # "ok"
                     /\ lastV'.param = NoParam
                     /\ ReachedReplayCheck(lastV', spvHeight)
                            <=> lastV'.res = "alreadyExist"]_vars

\* C1 witness: the pair accepted earlier is submitted again and refused as replayed.
C1_Witness ==
    /\ lastV.who = "sub" /\ "sub" \in acceptedBy
    /\ lastV.res = "alreadyExist"

\* C2: Verify succeeds only if the merkle root recomputed from the proof equals the
\* MerkleRoot of the header at the claimed height and the tree is structurally valid
\* with at least one match; where the roots differ Verify fails.
C2_MerkleIntegrity ==
    lastV.res = "ok" =>
        LET p == SubOf(lastV.who).proof
            m == ExtractMatches(p)
        IN  /\ p # BadBytes
            /\ m.root # NilHash /\ ~m.bad /\ Len(m.matches) > 0
            /\ m.root = MerkleRootOf(Block(lastV.height))

\* C2 witness: a relayer's proof was accepted, and another was refused for its root.
C2_Witness == lastV.who = "sub" /\ lastV.res = "ok" /\ sub.proof # HonestSub.proof

\* C3: Verify rejects as 'not confirmed' when currentHeight - claimedHeight <
\* BlocksToWait - 1 and does not reject for that reason at the boundary.
C3_ConfirmationGate ==
    [][(IsVerifyStep /\ lastV'.fault \notin {"spvHeight", "sideChain"}) =>
          /\ spvHeight - lastV'.height < blocksToWait - 1
                => lastV'.res = "notConfirmed"
          /\ spvHeight - lastV'.height = blocksToWait - 1
                => lastV'.res # "notConfirmed"]_vars

\* The validations of verifyBtcTx on a submission, from its inputs.
AllValidationsPass(s, height, besth, fault) ==
    /\ fault = "none"
    /\ ~(U32(besth - height) < U32(blocksToWait - 1))
    /\ s.tx # BadBytes /\ s.proof # BadBytes
    /\ TxHash(s.tx) \in SeqToSet(s.proof.hashes)
    /\ TxHash(s.tx) \notin verified
    /\ TxTable[s.tx.body].outs
    /\ LET m == ExtractMatches(s.proof) IN
          /\ m.root # NilHash /\ ~m.bad /\ Len(m.matches) > 0
          /\ height <= besth
          /\ m.root = MerkleRootOf(Block(height))

\* C10: the replay sentinel is written only by a Verify call in which every validation
\* succeeded, and a Verify call that fails leaves the key-value store unchanged.
C10_WriteOrdering ==
    [][IsVerifyStep =>
          /\ verified' # verified
                => /\ lastV'.res = "ok"
                   /\ AllValidationsPass(SubOf(lastV'.who), lastV'.height,
                                         spvHeight, lastV'.fault)
                   /\ verified' = verified \cup {TxHash(SubOf(lastV'.who).tx)}
          /\ lastV'.res # "ok" => verified' = verified]_vars

\* C10 witness: a call failed at the last validation, after the replay check passed.
C10_Witness == lastV.res = "rootNotEqual" /\ verified = {}

-----------------------------------------------------------------------------
(* The builder on its own *)

InitVerifierIdle ==
    /\ sub = HonestSub
    /\ verified = {}
    /\ spvHeight = 1
    /\ blocksToWait = MaxWait
    /\ lastV = [who |-> "none", height |-> 0, fault |-> "none",
                res |-> "none", param |-> NoParam]
    /\ acceptedBy = {}

NextBuilder == MakeTransaction /\ UNCHANGED <<verifierVars, govVars>>

InitMake == InitBuilder /\ InitVerifierIdle /\ InitConfig(SmallGenesis)

SpecBuilder == InitMake /\ [][NextBuilder]_vars

\* C8: makeBtcTx computes change = selectedTotal - sum(amounts) - FEE; it fails with
\* 'not enough utxos', writing nothing, whenever that change is negative, and whenever
\* it succeeds change >= 0 and the outputs of the persisted transaction sum to
\* sum(amounts) + change.
C8_FundSufficiency ==
    [][lastM' # lastM =>
         LET amountSum == SumOver(req, DOMAIN req)
             change == lastM'.sum - amountSum - FEE
             computed == lastM'.res \in {"ok", "notEnoughUtxos"}
         IN  /\ (computed /\ change < 0)
                   => /\ lastM'.res = "notEnoughUtxos"
                      /\ btcTx' = btcTx /\ notifications' = notifications
             /\ lastM'.res = "ok"
                   => /\ change >= 0
                      /\ lastM'.change = change
                      /\ OutputSum(btcTx'.outs) = amountSum + change
                      /\ OutputSum(btcTx'.outs) + FEE = lastM'.sum
             /\ (AmountsOk(req) /\ DOMAIN req # {} /\ lastM'.fault = "none"
                 /\ lastM'.sum > 0 /\ lastM'.nIns > 0)
                   => computed]_vars

\* C8 witness: 500000 requested, 600000 selected: change 99000 is paid back.
C8_Witness ==
    /\ lastM.res = "ok" /\ lastM.sum = 600000 /\ lastM.change = 99000
    /\ DOMAIN req = {"addrA"} /\ req["addrA"] = 500000
    /\ OutputSum(btcTx.outs) = 599000

-----------------------------------------------------------------------------
(* The committee epoch state machine: applications, approval, quit, staged *)
(* configuration and epoch commit, from a genesis of K + 1 peers. *)

Init == InitConfig(SmallGenesis) /\ InitVerifierIdle /\ InitBuilderIdle

Next ==
    \/ CallRegisterCandidate /\ UNCHANGED <<verifierVars, builderVars>>
    \/ CallApproveCandidate /\ UNCHANGED <<verifierVars, builderVars>>
    \/ CallQuitNode /\ UNCHANGED <<verifierVars, builderVars>>
    \/ CallUpdateConfig /\ UNCHANGED <<verifierVars, builderVars>>
    \/ CallCommitDpos /\ UNCHANGED <<verifierVars, builderVars>>

Spec == Init /\ [][Next]_vars

-----------------------------------------------------------------------------
(* The stake operations, from a genesis that fills the pool or leaves one place. *)

InitStake ==
    /\ \E g \in {FullGenesis - 1, FullGenesis} : InitConfig(g)
    /\ InitVerifierIdle
    /\ InitBuilderIdle

NextStake ==
    \/ CallRegisterCandidate /\ UNCHANGED <<verifierVars, builderVars>>
    \/ CallUnRegisterCandidate /\ UNCHANGED <<verifierVars, builderVars>>
    \/ CallApproveCandidate /\ UNCHANGED <<verifierVars, builderVars>>
    \/ CallRejectCandidate /\ UNCHANGED <<verifierVars, builderVars>>
    \/ CallAddPos /\ UNCHANGED <<verifierVars, builderVars>>
    \/ CallReducePos /\ UNCHANGED <<verifierVars, builderVars>>

SpecStake == InitStake /\ [][NextStake]_vars

-----------------------------------------------------------------------------
(* The black list, the rotation it forces and the view, on a growing ledger. *)

InitCommittee == InitConfig(SmallGenesis) /\ InitVerifierIdle /\ InitBuilderIdle

NextCommittee ==
    \/ CallRegisterCandidate /\ UNCHANGED <<verifierVars, builderVars>>
    \/ CallApproveCandidate /\ UNCHANGED <<verifierVars, builderVars>>
    \/ CallBlackNode /\ UNCHANGED <<verifierVars, builderVars>>
    \/ CallWhiteNode /\ UNCHANGED <<verifierVars, builderVars>>
    \/ CallQuitNode /\ UNCHANGED <<verifierVars, builderVars>>
    \/ CallCommitDpos /\ UNCHANGED <<verifierVars, builderVars>>

SpecCommittee == InitCommittee /\ [][NextCommittee]_vars

-----------------------------------------------------------------------------
(* The epoch commit on a growing ledger. *)

InitEpoch == InitConfig(SmallGenesis) /\ InitVerifierIdle /\ InitBuilderIdle

NextEpoch ==
    \/ CallQuitNode /\ UNCHANGED <<verifierVars, builderVars>>
    \/ CallUpdateConfig /\ UNCHANGED <<verifierVars, builderVars>>
    \/ CallCommitDpos /\ UNCHANGED <<verifierVars, builderVars>>
    \/ CallBlackNode /\ UNCHANGED <<verifierVars, builderVars>>
    \/ CallWhiteNode /\ UNCHANGED <<verifierVars, builderVars>>
    \/ AdvanceHeight /\ UNCHANGED <<verifierVars, builderVars>>

SpecEpoch == InitEpoch /\ [][NextEpoch]_vars

-----------------------------------------------------------------------------
(* UpdateConfig on the grid of configurations, with 8 and with 7 live peers. *)

InitUpdate == InitConfig(SmallGenesis) /\ InitVerifierIdle /\ InitBuilderIdle

NextConfig ==
    \/ CallUpdateConfigGrid /\ UNCHANGED <<verifierVars, builderVars>>
    \/ CallQuitNode /\ UNCHANGED <<verifierVars, builderVars>>

SpecConfig == InitUpdate /\ [][NextConfig]_vars

-----------------------------------------------------------------------------
(* The global parameters, from a genesis that fills the pool. *)

InitParam == InitConfig(FullGenesis) /\ InitVerifierIdle /\ InitBuilderIdle

NextParam ==
    \/ CallUpdateGlobalParam /\ UNCHANGED <<verifierVars, builderVars>>
    \/ CallUpdateConfig /\ UNCHANGED <<verifierVars, builderVars>>
    \/ CallCommitDpos /\ UNCHANGED <<verifierVars, builderVars>>
    \/ CallRegisterCandidate /\ UNCHANGED <<verifierVars, builderVars>>
    \/ CallApproveCandidate /\ UNCHANGED <<verifierVars, builderVars>>

SpecParam == InitParam /\ [][NextParam]_vars

-----------------------------------------------------------------------------
(* Properties of the governance contract *)

\* The governance call a step makes, and its result.
IsCall(op) == last'.op = op
Returned(res) == last'.res = res

\* C4: an ApproveCandidate or RegisterCandidate call made on a pool whose
\* Candidate+Consensus count is at most CandidateNum leaves the count at most
\* CandidateNum, and an ApproveCandidate made when the count has reached
\* CandidateNum is rejected and leaves the pool as it was.
C4_CandidateCap ==
    [][(IsCall("approve") \/ IsCall("register")) =>
         /\ ActiveCount(peerPoolMap) <= globalParam.CandidateNum
               => ActiveCount(peerPoolMap') <= globalParam'.CandidateNum
         /\ (IsCall("approve") /\ ActiveCount(peerPoolMap) >= globalParam.CandidateNum)
               => ~Returned("ok") /\ peerPoolMap' = peerPoolMap]_vars

\* An approval filled the last place of the pool and a later one was refused.
C4_Witness ==
    /\ last.op = "approve"
    /\ last.res = "full"
    /\ genesis < globalParam.CandidateNum
    /\ ActiveCount(peerPoolMap) = globalParam.CandidateNum

\* C9: an ApproveCandidate call that returns an error leaves the store unchanged,
\* the candidate-index allocator and the pubkey-to-index record included.
C9_RejectedApproveNoOp ==
    [][(IsCall("approve") /\ ~Returned("ok")) => UNCHANGED storeVars]_vars

RECURSIVE SumEscrow(_)
SumEscrow(ks) ==
    IF ks = {} THEN 0
    ELSE LET k == CHOOSE x \in ks : TRUE
         IN  escrow[k] + SumEscrow(ks \ {k})

\* C7: the custody account holds what was transferred in minus what was
\* transferred out, and for no pubkey has more been paid out than came in for it.
C7_StakeConservation ==
    /\ custody = SumEscrow(DOMAIN escrow)
    /\ \A k \in DOMAIN escrow : escrow[k] >= 0

\* The K a QuitNode call made in this state is checked against.
StagedNow == preConfig.SetView = View
QuitK == IF StagedNow THEN preConfig.Configuration.K ELSE config.K

\* C5 as stated: after every successful QuitNode the remaining Candidate+Consensus
\* count is strictly greater than the effective K.
C5_RemainingAboveK ==
    [][(IsCall("quit") /\ Returned("ok")) => ActiveCount(peerPoolMap') > QuitK]_vars

\* C5: a successful QuitNode takes one peer out of the Candidate+Consensus count
\* and leaves at least the effective K of them; a QuitNode that would leave
\* fewer is rejected and changes nothing.
C5_QuitGuard ==
    [][IsCall("quit") =>
         /\ Returned("ok") =>
               /\ ActiveCount(peerPoolMap') = ActiveCount(peerPoolMap) - 1
               /\ ActiveCount(peerPoolMap') >= QuitK
         /\ ActiveCount(peerPoolMap) - 1 < QuitK =>
               ~Returned("ok") /\ UNCHANGED storeVars]_vars

\* A quit succeeded and left exactly the effective K active peers.
C5_Witness ==
    /\ last.op = "quit"
    /\ last.res = "ok"
    /\ ActiveCount(peerPoolMap) = QuitK

\* C6 as stated: a QuitNode made at the view a configuration was staged at is
\* checked against the K of the active configuration.
C6_QuitUsesActiveK ==
    [][(IsCall("quit") /\ StagedNow) =>
         /\ Returned("lessThanK") => ActiveCount(peerPoolMap) <= config.K
         /\ Returned("ok") => ActiveCount(peerPoolMap) > config.K]_vars

\* C6: UpdateConfig stages the configuration under the current view and leaves
\* the active configuration as it was, no call but an epoch commit changes the
\* active configuration, and QuitNode checks the count against the staged K from
\* the moment it is staged at the current view, against the active K otherwise.
C6_StagedConfig ==
    [][/\ IsCall("updateConfig") =>
             /\ config' = config
             /\ Returned("ok") => preConfig'.SetView = View
       /\ config' # config => IsCall("commitDpos")
       /\ IsCall("quit") =>
             /\ Returned("lessThanK") => ActiveCount(peerPoolMap) <= QuitK
             /\ Returned("ok") => ActiveCount(peerPoolMap) > QuitK]_vars

\* A quit was refused by the staged K where the active K would have let it pass.
C6_Witness ==
    /\ last.op = "quit"
    /\ last.res = "lessThanK"
    /\ StagedNow
    /\ ActiveCount(peerPoolMap) > config.K
    /\ ActiveCount(peerPoolMap) <= preConfig.Configuration.K

-----------------------------------------------------------------------------
(* Properties of the index allocator, the black list and the view *)

\* A step that is the governance call op, made at the current ledger height.
IsCallStep(op) == last'.op = op /\ blockHeight' = blockHeight

\* C11: an index recorded for a pubkey is never changed or removed, every entry
\* of the pool carries the index recorded for its pubkey, whatever sequence of
\* apply, approve, quit, blacklist, whitelist, re-approval and commit calls led
\* to it, and the candidate-index allocator never decreases.
C11_IndexStability ==
    [][/\ \A k \in DOMAIN peerIndex :
             Has(peerIndex', k) /\ peerIndex'[k] = peerIndex[k]
       /\ \A k \in DOMAIN peerPoolMap' :
             /\ Has(peerIndex', k) /\ peerPoolMap'[k].Index = peerIndex'[k]
             /\ Has(peerPoolMap, k) => peerPoolMap'[k].Index = peerPoolMap[k].Index
       /\ candidateIndex' >= candidateIndex]_vars

\* The applicant was approved, blacklisted and approved again after an epoch
\* commit: its pool entry carries the index of its first approval.
C11_Witness ==
    /\ last.op = "approve" /\ last.res = "ok"
    /\ View >= 2
    /\ \E k \in Applicants :
          /\ last.key = k
          /\ Has(blackList, k)
          /\ Has(peerPoolMap, k) /\ peerPoolMap[k].Status = "Candidate"
          /\ peerPoolMap[k].Index = genesis + 1
          /\ candidateIndex = genesis + 2

\* C12: a successful BlackNode leaves every listed peer in the pool with status
\* Black and a black-list record of its address and stake; when a listed peer
\* had status Consensus the call commits the epoch (View is one greater when it
\* returns), and when none had, the governance view is as before.
C12_ForcedRotation ==
    [][(IsCallStep("blackNode") /\ Returned("ok")) =>
         LET listed == SeqToSet(last'.key)
             hadConsensus == \E k \in listed :
                                Has(peerPoolMap, k) /\ peerPoolMap[k].Status = "Consensus"
         IN  /\ \A k \in listed :
                   /\ Has(peerPoolMap, k)
                   /\ Has(peerPoolMap', k) /\ peerPoolMap'[k].Status = "Black"
                   /\ Has(blackList', k)
                   /\ blackList'[k].Address = peerPoolMap[k].Address
                   /\ blackList'[k].Pos = peerPoolMap[k].Pos
             /\ hadConsensus => governanceView'.View = View + 1
             /\ ~hadConsensus => governanceView' = governanceView]_vars

\* A list of a Candidate and a Consensus peer was blacklisted and the epoch
\* was committed by that call.
C12_Witness ==
    /\ last.op = "blackNode" /\ last.res = "ok"
    /\ Len(last.key) = 2 /\ last.key[2] = 1 /\ last.key[1] \in Applicants
    /\ View = 2
    /\ governanceView.TxHash[1] = "blackNode"
    /\ \A k \in SeqToSet(last.key) : peerPoolMap[k].Status = "Black" /\ Has(blackList, k)

\* A CommitDpos call is authorized when the operator witnesses it or the view
\* is MaxBlockChangeView blocks old, in mathematical integers.
CommitAuthorized ==
    \/ last'.key = Operator
    \/ blockHeight - governanceView.Height >= config.MaxBlockChangeView

\* C13: a CommitDpos call executes the commit exactly when it is authorized: the
\* operator always, any other caller if and only if currentHeight minus the
\* height the view started at is at least the active MaxBlockChangeView; a call
\* that is not authorized fails with the authentication error and changes
\* neither the store nor the ledger.
C13_CommitAuthorization ==
    [][IsCallStep("commitDpos") =>
         /\ CommitAuthorized <=> ~Returned("authFailed")
         /\ Returned("authFailed") => UNCHANGED <<storeVars, ledgerVars, escrow>>
         /\ CommitAuthorized =>
               \/ Returned("ok") /\ governanceView'.View = View + 1
               \/ Returned("transferError")]_vars

\* A caller other than the operator committed the epoch at the first height the
\* fallback allows.
C13_Witness ==
    /\ last.op = "commitDpos" /\ last.res = "ok"
    /\ last.key \in Users
    /\ View = 2
    /\ governanceView.Height = config.MaxBlockChangeView

\* The constraints on a configuration, read as mathematical integers, for a
\* pool with num live peers.
ConfigValid(c, num) ==
    /\ c.C # 0
    /\ c.K <= num
    /\ c.K >= 7
    /\ c.L >= 16 * c.K
    /\ c.L % c.K = 0
    /\ c.K >= 2 * c.C + 1
    /\ c.N >= c.K
    /\ c.BlockMsgDelay >= 5000
    /\ c.HashMsgDelay >= 5000
    /\ c.PeerHandshakeTimeout >= 10
    /\ c.MaxBlockChangeView >= 10000

\* C14: UpdateConfig stages a configuration only if it meets every constraint
\* read as mathematical integers (C # 0, K <= live count, L >= 16*K, L mod K = 0,
\* K >= 2*C+1, N >= K >= 7 and the four timing bounds); otherwise nothing is staged.
C14_ConfigConstraints ==
    [][IsCallStep("updateConfig") =>
         /\ Returned("ok") =>
               /\ ConfigValid(preConfig'.Configuration, ActiveCount(peerPoolMap))
               /\ preConfig'.SetView = View
         /\ ~Returned("ok") => preConfig' = preConfig]_vars

\* hex.DecodeString: the bytes of a string of hex digits.
HexValue(d) == CHOOSE n \in 0..15 : HexDigits[n + 1] = d
HexDecode(h) ==
    [i \in 1..(Len(h) \div 2) |-> 16 * HexValue(h[2 * i - 1]) + HexValue(h[2 * i])]

\* C15: a makeBtcTx that succeeds writes the unsigned transaction built from the
\* request under the pending-withdrawal key and appends exactly one 'makeBtcTx'
\* notification whose payload is the hex encoding of the bytes written; one that
\* returns an error leaves the key and the notifications as they were; neither
\* touches the replay-guard keys.
C15_BuilderSideEffects ==
    [][(lastM' # lastM \/ btcTx' # btcTx \/ notifications' # notifications) =>
         /\ lastM'.res = "ok" =>
               /\ btcTx' = getUnsignedTx(lastM'.nIns, req, lastM'.change)
               /\ Len(notifications') = Len(notifications) + 1
               /\ SubSeq(notifications', 1, Len(notifications)) = notifications
               /\ LET n == notifications'[Len(notifications')]
                  IN  /\ n[1] = "makeBtcTx"
                      /\ Len(n[2]) = 2 * Len(BtcEncode(btcTx'))
                      /\ HexDecode(n[2]) = BtcEncode(btcTx')
         /\ lastM'.res # "ok" => btcTx' = btcTx /\ notifications' = notifications
         /\ verified' = verified]_vars

\* A transaction paying 500000 with 99000 of change was stored and notified once.
C15_Witness ==
    /\ lastM.res = "ok" /\ lastM.change = 99000
    /\ Len(notifications) = 1
    /\ notifications[1][1] = "makeBtcTx"
    /\ HexDecode(notifications[1][2]) = BtcEncode(btcTx)
    /\ Len(btcTx.outs) = 2

\* C16: after a successful ApproveCandidate or RejectCandidate for a pubkey no
\* PeerApply record exists for it, and an ApproveCandidate or RejectCandidate for
\* a pubkey that was approved or rejected and has not applied again fails.
C16_ApplicationConsumed ==
    [][((IsCallStep("approve") \/ IsCallStep("reject")) /\ Returned("ok")) =>
         ~Has(peerApply', last'.key)]_vars

\* C17: UnRegisterCandidate succeeds only for a pubkey with a pending
\* application that is not in the peer pool, and it pays no refund for a pubkey
\* that is in the pool.
C17_UnRegisterOnlyApplied ==
    [][IsCallStep("unRegister") =>
         /\ Returned("ok") => Has(peerApply, last'.key) /\ ~Has(peerPoolMap, last'.key)
         /\ custody' # custody => ~Has(peerPoolMap, last'.key)]_vars

\* C18: RegisterCandidate for a pubkey that has a black-list record, a pending
\* application or a pool entry is rejected and changes neither the store nor
\* the ledger; for any other pubkey a call witnessed by the declared address
\* stores the application and escrows exactly the declared Pos.
C18_RegisterGuard ==
    [][IsCallStep("register") =>
         LET k == last'.key
             blocked == Has(blackList, k) \/ Has(peerApply, k) \/ Has(peerPoolMap, k)
         IN  /\ blocked => ~Returned("ok") /\ UNCHANGED <<storeVars, ledgerVars, escrow>>
             /\ (~blocked /\ ~Returned("checkWitness")) =>
                   /\ Has(peerApply', k)
                   /\ custody' = custody + peerApply'[k].Pos]_vars

\* C19: a successful WhiteNode removes the pubkey's black-list record and
\* changes nothing else: the pool, the statuses, the applications, the view, the
\* configurations and the ledger are as before; WhiteNode for a pubkey with no
\* black-list record fails, and a failed WhiteNode changes nothing.
C19_WhiteNodeFrame ==
    [][IsCallStep("whiteNode") =>
         LET k == last'.key
         IN  /\ Returned("ok") =>
                   /\ Has(blackList, k)
                   /\ blackList' = DeleteEntry(blackList, k)
                   /\ UNCHANGED <<peerPoolMap, peerApply, peerIndex, candidateIndex,
                                  governanceView, config, preConfig, globalParam,
                                  ledgerVars, escrow>>
             /\ ~Has(blackList, k) => ~Returned("ok")
             /\ ~Returned("ok") => UNCHANGED <<storeVars, ledgerVars, escrow>>]_vars

\* A blacklisted peer was whitelisted: its record is gone and it is still Black.
C19_Witness ==
    /\ last.op = "whiteNode" /\ last.res = "ok"
    /\ ~Has(blackList, last.key)
    /\ Has(peerPoolMap, last.key)
    /\ peerPoolMap[last.key].Status = "Black"

\* The step is an executed epoch commit: a CommitDpos that succeeded, or a
\* BlackNode that succeeded on a list with a Consensus peer.
ExecutedCommit ==
    \/ IsCallStep("commitDpos") /\ Returned("ok")
    \/ /\ IsCallStep("blackNode") /\ Returned("ok")
       /\ \E k \in SeqToSet(last'.key) :
             Has(peerPoolMap, k) /\ peerPoolMap[k].Status = "Consensus"

\* C20: the view is 1 after InitConfig; a step changes GovernanceView only if it
\* is an executed epoch commit, and every executed commit replaces it by the
\* view plus one, the current height and the hash of the calling transaction.
C20_ViewMonotonic ==
    /\ [](last.op = "initConfig" => View = 1)
    /\ [][/\ governanceView' # governanceView => ExecutedCommit
          /\ ExecutedCommit =>
                governanceView' = [View |-> View + 1, Height |-> blockHeight,
                                   TxHash |-> CurrentTxHash(last'.op)]]_vars

\* Two epochs were committed, the second one by a BlackNode at a later height.
C20_Witness ==
    /\ View = 3
    /\ governanceView.TxHash[1] = "blackNode"
    /\ governanceView.Height = config.MaxBlockChangeView
    /\ last.op = "blackNode" /\ last.res = "ok"

-----------------------------------------------------------------------------
(* Properties of the global parameters, the stake and the black list *)

\* C21: in every reachable state, after genesis and after any sequence of
\* governance calls, UpdateGlobalParam included, at most GlobalParam.CandidateNum
\* peers of the pool have status Candidate or Consensus.
C21_PoolWideCap == ActiveCount(peerPoolMap) <= globalParam.CandidateNum

\* C22: UpdateGlobalParam stores the parameters it is given only if CandidateNum
\* is at least four times the K of the active configuration and MinInitStake is
\* at least 1; a call that fails leaves GlobalParam as it was; and the next
\* ApproveCandidate is checked against the parameters just stored.
C22_GlobalParamGuard ==
    [][/\ IsCallStep("updateGlobalParam") =>
             /\ Returned("ok") =>
                   /\ globalParam' = last'.key
                   /\ last'.key.CandidateNum >= 4 * config.K
                   /\ last'.key.MinInitStake >= 1
             /\ ~Returned("ok") => globalParam' = globalParam
             /\ UNCHANGED <<peerPoolMap, peerApply, blackList, peerIndex, candidateIndex,
                            governanceView, config, preConfig, ledgerVars, escrow>>
       /\ globalParam' # globalParam => IsCallStep("updateGlobalParam")
       /\ (IsCallStep("approve") /\ Has(peerApply, last'.key)
              /\ ~Returned("checkWitness")) =>
             /\ Returned("initPos")
                   <=> peerApply[last'.key].Pos < globalParam.MinInitStake
             /\ Returned("ok") =>
                   ActiveCount(peerPoolMap) < globalParam.CandidateNum]_vars

\* The cap was set to four times an active K raised to 8, the least value the
\* check lets pass.
C22_Witness ==
    /\ last.op = "updateGlobalParam" /\ last.res = "ok"
    /\ config.K = GenesisConfig.K + 1
    /\ globalParam.CandidateNum = 4 * config.K
    /\ globalParam = last.key

\* C23: a QuitNode that reaches the K check is refused exactly when the
\* Candidate+Consensus count is at most the K of the staged configuration, when a
\* PreConfig exists whose SetView is the current view, and at most the K of the
\* active configuration when none is pending for the current view.
C23_EffectiveK ==
    [][(IsCallStep("quit") /\ (Returned("ok") \/ Returned("lessThanK"))) =>
         LET num == ActiveCount(peerPoolMap)
         IN  /\ preConfig.SetView = View =>
                   (Returned("lessThanK") <=> num <= preConfig.Configuration.K)
             /\ preConfig.SetView # View =>
                   (Returned("lessThanK") <=> num <= config.K)]_vars

\* A quit passed the staged K of 7 where the active K of 8 would have refused it.
C23_Witness ==
    /\ last.op = "quit" /\ last.res = "ok"
    /\ preConfig.SetView = View
    /\ preConfig.Configuration.K = GenesisConfig.K
    /\ config.K = GenesisConfig.K + 1
    /\ ActiveCount(peerPoolMap) = GenesisConfig.K

\* C24: a BlackNode call whose list holds a pubkey that is malformed or not in
\* the current pool fails and writes no black-list record and changes no status,
\* for any pubkey of the list, those before the offending one included.
C24_BlackNodeAtomic ==
    [][IsCallStep("blackNode") =>
         LET keys == last'.key
             offending == \E i \in 1..Len(keys) :
                             keys[i] = BadPubkey \/ ~Has(peerPoolMap, keys[i])
         IN  offending =>
                /\ ~Returned("ok")
                /\ blackList' = blackList
                /\ peerPoolMap' = peerPoolMap]_vars

\* C25: a RegisterCandidate, UnRegisterCandidate, RejectCandidate or AddPos call
\* in which the asset transfer returns an error fails and leaves the PeerApply
\* records and every peer's Pos as they were before the call.
C25_TransferFailureNoTrace ==
    [][((IsCallStep("register") \/ IsCallStep("unRegister") \/ IsCallStep("reject")
           \/ IsCallStep("addPos")) /\ Returned("transferError")) =>
         /\ peerApply' = peerApply
         /\ DOMAIN peerPoolMap' = DOMAIN peerPoolMap
         /\ \A k \in DOMAIN peerPoolMap : peerPoolMap'[k].Pos = peerPoolMap[k].Pos]_vars

\* C26: a successful ReducePos of an amount a is made on a Candidate or Consensus
\* peer; it decreases the peer's Pos by a and increases its LockPos by a, in
\* mathematical integers, and leaves Pos + LockPos, the status, the rest of the
\* pool and the custody balance as they were; a ReducePos for a pubkey that is
\* absent, Quiting or Black fails, and a failed ReducePos changes nothing.
C26_ReducePosDefers ==
    [][IsCallStep("reducePos") =>
         LET k == last'.key
             eligible == Has(peerPoolMap, k) /\ IsActive(peerPoolMap[k])
         IN  /\ Returned("ok") =>
                   /\ eligible
                   /\ \E a \in PosValues :
                         /\ peerPoolMap'[k].Pos = peerPoolMap[k].Pos - a
                         /\ peerPoolMap'[k].LockPos = peerPoolMap[k].LockPos + a
                   /\ peerPoolMap'[k].Pos + peerPoolMap'[k].LockPos
                         = peerPoolMap[k].Pos + peerPoolMap[k].LockPos
                   /\ peerPoolMap'[k].Status = peerPoolMap[k].Status
                   /\ \A j \in DOMAIN peerPoolMap \ {k} : peerPoolMap'[j] = peerPoolMap[j]
                   /\ DOMAIN peerPoolMap' = DOMAIN peerPoolMap
                   /\ UNCHANGED <<ledgerVars, escrow>>
             /\ ~eligible => ~Returned("ok")
             /\ ~Returned("ok") => UNCHANGED <<storeVars, ledgerVars, escrow>>]_vars

\* The error results UpdateConfig returns as values.
ConfigErrors ==
    {"checkWitness", "zeroC", "kTooLarge", "badL", "kLessThan2C1", "badNK",
     "blockMsgDelay", "hashMsgDelay", "peerHandshakeTimeout", "maxBlockChangeView"}

\* C27: for every configuration it is given, K = 0 included, UpdateConfig returns
\* success or one of its error values; it never ends in a run-time panic, and a
\* configuration with C # 0 and K = 0 is rejected with an error value.
C27_NoAbnormalAbort ==
    [][IsCallStep("updateConfig") =>
         /\ last'.res \in {"ok"} \cup ConfigErrors
         /\ last'.res # "panic"]_vars

\* The stake on the books: the Pos of the applications in ks, and the Pos and
\* LockPos of the pool entries in ks.
RECURSIVE AppliedStake(_)
AppliedStake(ks) ==
    IF ks = {} THEN 0
    ELSE LET k == CHOOSE x \in ks : TRUE
         IN  peerApply[k].Pos + AppliedStake(ks \ {k})

RECURSIVE PooledStake(_)
PooledStake(ks) ==
    IF ks = {} THEN 0
    ELSE LET k == CHOOSE x \in ks : TRUE
         IN  peerPoolMap[k].Pos + peerPoolMap[k].LockPos + PooledStake(ks \ {k})

\* C28: in every reachable state the custody balance equals the sum of Pos over
\* the pending PeerApply records plus the sum of Pos + LockPos over the peers of
\* the current pool.
C28_EscrowMatchesBooks ==
    custody = AppliedStake(DOMAIN peerApply) + PooledStake(DOMAIN peerPoolMap)

\* C29: while a pubkey has a black-list record, no governance call sets its
\* pool status to Candidate or Consensus: a step taken with the record present
\* leaves the pubkey with an active status only if it had that status before.
C29_BlackStaysOut ==
    [][\A k \in DOMAIN blackList :
          (Has(peerPoolMap', k) /\ IsActive(peerPoolMap'[k])) =>
              /\ Has(peerPoolMap, k)
              /\ peerPoolMap[k].Status = peerPoolMap'[k].Status]_vars

-----------------------------------------------------------------------------
(* Properties of the proof's matches *)

\* C30: Verify accepts a transaction only if its txid is one of the matched
\* leaves of the merkle block, the leaves the walk that recomputes the header's
\* root marks as proven, and not merely one of the hashes the proof lists.
C30_ProvenInclusion ==
    lastV.res = "ok" =>
        LET s == SubOf(lastV.who)
            m == ExtractMatches(s.proof)
        IN  /\ m.root = HeaderMerkleRoot(lastV.height)
            /\ TxHash(s.tx) \in SeqToSet(m.matches)

-----------------------------------------------------------------------------
(* Properties of fixed-width arithmetic *)

\* C31: a Verify call that reaches the confirmation gate is rejected as 'not
\* confirmed' whenever the claimed height is greater than the SPV client's
\* current height, and with BlocksToWait = 0 no call whose claimed height is at
\* most the current height is rejected as 'not confirmed'.
C31_GateWidth ==
    [][(IsVerifyStep /\ lastV'.fault \notin {"spvHeight", "sideChain"}) =>
          /\ lastV'.height > spvHeight => lastV'.res = "notConfirmed"
          /\ (blocksToWait = 0 /\ lastV'.height <= spvHeight)
                => lastV'.res # "notConfirmed"]_vars

\* C32: Pos and LockPos keep their mathematical values over AddPos and
\* ReducePos: a successful ReducePos moves an amount that is at most the peer's
\* Pos from Pos to LockPos, a successful AddPos adds its amount to Pos, and both
\* results are the sums and differences in mathematical integers (a call that
\* would take Pos below 0 or past the greatest uint64 is rejected).
C32_StakeNeverWraps ==
    [][\A k \in DOMAIN peerPoolMap :
          /\ (IsCallStep("reducePos") /\ Returned("ok") /\ last'.key = k) =>
                \E a \in PosValues :
                   /\ a <= peerPoolMap[k].Pos
                   /\ peerPoolMap'[k].Pos = peerPoolMap[k].Pos - a
                   /\ peerPoolMap'[k].LockPos = peerPoolMap[k].LockPos + a
          /\ (IsCallStep("addPos") /\ Returned("ok") /\ last'.key = k) =>
                \E a \in PosValues :
                   /\ peerPoolMap[k].Pos + a < Uint64Mod
                   /\ peerPoolMap'[k].Pos = peerPoolMap[k].Pos + a
                   /\ peerPoolMap'[k].LockPos = peerPoolMap[k].LockPos]_vars

====
